---- MODULE Spec2Model ----
(***************************************************************************)
(* MelodyForge bot (src/bot.py): the user store, the metadata client, the  *)
(* media acquirer and the handlers that the transport dispatches.  Every   *)
(* handler is a coroutine on one cooperative event loop: an action of this *)
(* model is the code a handler runs between two awaits, so handlers of     *)
(* different inbound events interleave exactly at their awaits.            *)
(*                                                                         *)
(* Text is a sequence of one-character strings.  Replies are recorded by   *)
(* their kind, not their wording.  loc holds a handler's local variables   *)
(* for as long as the rest of the handler reads them; hist records what    *)
(* the handler has done so far.  call and ret hold an operation called on  *)
(* its own and what it returned, for the specifications that exercise the  *)
(* store's and the client's operations one call at a time.                 *)
(***************************************************************************)
EXTENDS Integers, Sequences, FiniteSets, TLC

VARIABLES users, downloads, files, clock, pc, loc, out, hist, count0, call, ret

vars == <<users, downloads, files, clock, pc, loc, out, hist, count0, call, ret>>

(***************************************************************************)
(* Bounds of the model.                                                    *)
(***************************************************************************)
NumUsers == 2
NumInv == 2
MaxClock == 1

UserIds == 1..NumUsers
Procs == 1..NumInv

(***************************************************************************)
(* Program constants.                                                      *)
(***************************************************************************)
AdPeriod == 10

HistoryLimit == 10

Unknown == <<"U", "n", "k", "n", "o", "w", "n">>

None == [absent |-> TRUE]

(***************************************************************************)
(* Python string operations used by the handlers.                          *)
(***************************************************************************)
InStr(c, s) == \E i \in 1..Len(s) : s[i] = c

Find(s, c) == IF InStr(c, s) THEN CHOOSE i \in 1..Len(s) : s[i] = c /\ \A j \in 1..(i - 1) : s[j] # c ELSE 0

\* s.split(c, 1): at most one split, at the first occurrence of c
Split1(s, c) == IF InStr(c, s) THEN <<SubSeq(s, 1, Find(s, c) - 1), SubSeq(s, Find(s, c) + 1, Len(s))>> ELSE <<s>>

RECURSIVE Strip(_)
Strip(s) == IF s = <<>> THEN s ELSE IF Head(s) = " " THEN Strip(Tail(s)) ELSE IF s[Len(s)] = " " THEN Strip(SubSeq(s, 1, Len(s) - 1)) ELSE s

RECURSIVE Join(_)
Join(args) == IF args = <<>> THEN <<>> ELSE IF Len(args) = 1 THEN args[1] ELSE args[1] \o <<" ">> \o Join(Tail(args))

\* dict.get(key, default)
Get(d, key, default) == IF key \in DOMAIN d THEN d[key] ELSE default

(***************************************************************************)
(* Database: the users table is a function from the primary key to the     *)
(* row, the downloads table a sequence in AUTOINCREMENT order.             *)
(***************************************************************************)
get_user(U, user_id) == IF user_id \in DOMAIN U THEN U[user_id] ELSE None

\* a row that starts in advanced mode
NewRowAdvanced(username, now) == [username |-> username, mode |-> "advanced", interaction_count |-> 0, created_at |-> now]

\* the column defaults of the users table (lines 51-57)
NewRow(username, now) == [username |-> username, mode |-> "basic", interaction_count |-> 0, created_at |-> now]

\* INSERT OR REPLACE: an existing row gives way to a new one
CreateOrReplace(U, user_id, username, now) == [x \in DOMAIN U \cup {user_id} |-> IF x = user_id THEN NewRow(username, now) ELSE U[x]]

\* INSERT OR IGNORE INTO users (user_id, username)
create_user(U, user_id, username, now) == IF user_id \in DOMAIN U THEN U ELSE [x \in DOMAIN U \cup {user_id} |-> IF x = user_id THEN NewRow(username, now) ELSE U[x]]

\* the mode written by INSERT OR REPLACE: a user with no row gets one
UpsertMode(U, user_id, mode) == [x \in DOMAIN U \cup {user_id} |-> IF x = user_id THEN [IF x \in DOMAIN U THEN U[x] ELSE NewRow("new", 0) EXCEPT !.mode = mode] ELSE U[x]]

\* the UPDATE of the mode without its WHERE clause
UpdateModeEveryRow(U, user_id, mode) == [x \in DOMAIN U |-> [U[x] EXCEPT !.mode = mode]]

\* UPDATE users SET mode = ? WHERE user_id = ?
update_mode(U, user_id, mode) == [x \in DOMAIN U |-> IF x = user_id THEN [U[x] EXCEPT !.mode = mode] ELSE U[x]]

\* the UPDATE without its WHERE clause
IncrementEveryRow(U, user_id) == [x \in DOMAIN U |-> [U[x] EXCEPT !.interaction_count = @ + 1]]

\* UPDATE users SET interaction_count = interaction_count + 1 WHERE user_id = ?
IncrementUpdate(U, user_id) == [x \in DOMAIN U |-> IF x = user_id THEN [U[x] EXCEPT !.interaction_count = @ + 1] ELSE U[x]]

\* the count is computed and returned but the UPDATE is never committed
IncrementUncommitted(U, user_id) == [users |-> U, raised |-> user_id \notin DOMAIN U, count |-> IF user_id \in DOMAIN U THEN U[user_id].interaction_count + 1 ELSE 0]

\* the UPDATE, then SELECT ... fetchone()[0]: subscripting the None that
\* fetchone() returns when the user has no row raises TypeError
increment_interaction(U, user_id) == LET U2 == IncrementUpdate(U, user_id) IN [users |-> U2, raised |-> user_id \notin DOMAIN U2, count |-> IF user_id \in DOMAIN U2 THEN U2[user_id].interaction_count ELSE 0]

\* INSERT INTO downloads (user_id, track_name, artist); downloaded_at
\* defaults to CURRENT_TIMESTAMP
add_download(D, user_id, track_name, artist, now) == Append(D, [user_id |-> user_id, track_name |-> track_name, artist |-> artist, downloaded_at |-> now])

\* the ways to list the rows R (indices into D) latest downloaded_at first;
\* SQL leaves the order of rows with equal downloaded_at open
Orderings(D, R) == {o \in [1..Cardinality(R) -> R] : (\A i, j \in DOMAIN o : i < j => (o[i] # o[j] /\ D[o[i]].downloaded_at >= D[o[j]].downloaded_at))}

\* SELECT track_name, artist FROM downloads WHERE user_id = ?
\* ORDER BY downloaded_at DESC LIMIT ?: the results the query may give
get_user_history(D, user_id, limit) ==
    LET R == {i \in DOMAIN D : D[i].user_id = user_id}
        n == IF Cardinality(R) < limit THEN Cardinality(R) ELSE limit
    IN {[k \in 1..n |-> <<D[o[k]].track_name, D[o[k]].artist>>] : o \in Orderings(D, R)}

should_show_ad(interaction_count) == interaction_count > 0 /\ interaction_count % AdPeriod = 0

(***************************************************************************)
(* LastFMClient.  A provider response is modelled by what the client looks *)
(* at: whether the request or the JSON decoding raised, how many levels of *)
(* the method's nesting are present, and the track field, which is absent, *)
(* a single object or a list of objects.                                   *)
(***************************************************************************)
NoTrack == [tag |-> "absent", obj |-> <<>>, list |-> <<>>]

OneTrack(t) == [tag |-> "dict", obj |-> t, list |-> <<>>]

TrackList(l) == [tag |-> "list", obj |-> <<>>, list |-> l]

\* the test for a single object left out: only a list gives tracks
NormalizeListOnly(field) == field.list

\* isinstance(tracks, dict): tracks = [tracks]
Normalize(field) == IF field.tag = "dict" THEN <<field.obj>> ELSE field.list

\* search_track: data['results']['trackmatches'].get('track', [])
search_track(resp) ==
    IF resp.fail THEN <<>>
    ELSE IF resp.depth < 2 THEN <<>>
    ELSE IF resp.track.tag = "absent" THEN <<>>
    ELSE Normalize(resp.track)

\* get_similar_tracks: data['similartracks']['track']
get_similar_tracks(resp) ==
    IF resp.fail THEN <<>>
    ELSE IF resp.depth < 2 \/ resp.track.tag = "absent" THEN <<>>
    ELSE Normalize(resp.track)

\* get_top_tracks: data['tracks']['track'] as it came, [] otherwise
get_top_tracks(resp) ==
    IF resp.fail THEN TrackList(<<>>)
    ELSE IF resp.depth < 2 \/ resp.track.tag = "absent" THEN TrackList(<<>>)
    ELSE resp.track

(***************************************************************************)
(* Inputs: the texts users send, the provider's answers, the artifacts.    *)
(***************************************************************************)
Texts == {<<"a">>, <<"a", " ", "b">>}

ArgLists == {<<>>, <<<<"a">>>>, <<<<"a">>, <<"-">>, <<"b">>>>, <<<<"a", "-", "b">>, <<"b">>>>}

\* update.effective_user.username or first_name, as the transport gives it now
Username(u) == "new"

SearchHit1 == [artist |-> <<"b", " ", "a">>, name |-> <<"b">>]

SearchHit2 == [name |-> <<"a">>]

SimilarHit == [name |-> <<"b">>, artist |-> [name |-> <<"a">>]]

Malformed == {[fail |-> TRUE, depth |-> 0, track |-> NoTrack]} \cup {[fail |-> FALSE, depth |-> d, track |-> NoTrack] : d \in 0..2}

SearchResponses == Malformed \cup {[fail |-> FALSE, depth |-> 2, track |-> t] : t \in {OneTrack(SearchHit2), TrackList(<<>>), TrackList(<<SearchHit1, SearchHit2>>)}}

SimilarResponses == Malformed \cup {[fail |-> FALSE, depth |-> 2, track |-> t] : t \in {OneTrack(SimilarHit), TrackList(<<>>), TrackList(<<SimilarHit, SimilarHit>>)}}

TopResponses == Malformed \cup {[fail |-> FALSE, depth |-> 2, track |-> t] : t \in {OneTrack(SimilarHit), TrackList(<<>>), TrackList(<<SimilarHit, SimilarHit>>)}}

\* the callback tokens of the keyboards, and one that no keyboard has
Tokens == {"mode_basic", "mode_advanced", "adv_search", "adv_recommendations", "adv_top_tracks", "adv_history", "back_to_start", "other"}

Paths == {"f1", "f2"}

\* download_audio(query): the mp3 path that prepare_filename gives and whether
\* the file was written, or None (no path) when yt-dlp raised
download_audio(query) == {[path |-> "", made |-> FALSE], [path |-> "f1", made |-> FALSE]} \cup [path : Paths, made : {TRUE}]

(***************************************************************************)
(* Handler-local state of one inbound event, and what the event did.       *)
(***************************************************************************)
NoLocals == [user_id |-> 0, query |-> <<>>, mode |-> "basic", count |-> 0, tracks |-> <<>>, download_query |-> <<>>, file_path |-> "", artist |-> <<>>, track |-> <<>>, data |-> ""]

\* the locals in S as they are in l, the others as before their assignment
Keep(l, S) == [f \in DOMAIN NoLocals |-> IF f \in S THEN l[f] ELSE NoLocals[f]]

NoHistory == [handler |-> "none", user_id |-> 0, dashed |-> FALSE, incs |-> 0, due |-> FALSE, searches |-> 0, found |-> "no", similars |-> 0, acquires |-> 0, acquired |-> "no", sends |-> 0, sent |-> FALSE, adds |-> 0, raised |-> FALSE, fault |-> "none"]

Began(handler, u) == [NoHistory EXCEPT !.handler = handler, !.user_id = u]

\* some word of the command's arguments has a '-' in it
Dashed(args) == \E i \in DOMAIN args : \E j \in DOMAIN args[i] : args[i][j] = "-"

\* no operation called on its own, and no value returned yet
NoCall == [op |-> "none"]

Pending == [pending |-> TRUE]

\* users.db outlives the process: rows written by earlier runs
Rows == [username : {"old"}, mode : {"basic", "advanced"}, interaction_count : {AdPeriod - 1}, created_at : {0}]

Tables == UNION {[S -> Rows] : S \in SUBSET UserIds}

Init ==
    /\ users \in Tables
    /\ downloads = <<>>
    /\ files = {}
    /\ clock = 0
    /\ pc = [p \in Procs |-> "idle"]
    /\ loc = [p \in Procs |-> NoLocals]
    /\ out = [p \in Procs |-> <<>>]
    /\ hist = [p \in Procs |-> NoHistory]
    /\ count0 = [u \in UserIds |-> IF u \in DOMAIN users THEN users[u].interaction_count ELSE 0]
    /\ call = NoCall
    /\ ret = Pending

\* CURRENT_TIMESTAMP counts seconds: a statement reads the second of the
\* statement before it or a later one
Now == {t \in {clock, clock + 1} : t <= MaxClock}

\* inbound events are numbered in the order the transport dispatches them
CanStart(p) == pc[p] = "idle" /\ \A q \in Procs : q < p => pc[q] # "idle"

At(p, label) == pc[p] = label

Goto(p, label) == pc' = [pc EXCEPT ![p] = label]

Reply(p, m) == out' = [out EXCEPT ![p] = Append(@, m)]

\* the check made on the stored count as it is now, not on the value the
\* handler's own increment returned
ShowAdStored(p, count, sofar) ==
    LET now == IF hist[p].user_id \in DOMAIN users THEN users[hist[p].user_id].interaction_count ELSE 0
    IN /\ out' = [out EXCEPT ![p] = IF should_show_ad(now) THEN Append(sofar, "ad") ELSE sofar]
       /\ Goto(p, IF should_show_ad(now) THEN "last_reply" ELSE "done")
       /\ loc' = [loc EXCEPT ![p] = NoLocals]

\* the advertisement sent ahead of the replies of the invocation
ShowAdFirst(p, count, sofar) ==
    /\ out' = [out EXCEPT ![p] = IF should_show_ad(count) THEN <<"ad">> \o sofar ELSE sofar]
    /\ Goto(p, IF should_show_ad(count) THEN "last_reply" ELSE "done")
    /\ loc' = [loc EXCEPT ![p] = NoLocals]

\* if should_show_ad(count): await reply_text(random.choice(AD_MESSAGES));
\* then the handler returns and its locals are gone
ShowAd(p, count, sofar) ==
    /\ out' = [out EXCEPT ![p] = IF should_show_ad(count) THEN Append(sofar, "ad") ELSE sofar]
    /\ Goto(p, IF should_show_ad(count) THEN "last_reply" ELSE "done")
    /\ loc' = [loc EXCEPT ![p] = NoLocals]

\* the exception leaves the handler
Raise(p) ==
    /\ Goto(p, "raised")
    /\ loc' = [loc EXCEPT ![p] = NoLocals]
    /\ UNCHANGED out

Counted(h, inc) == [h EXCEPT !.incs = IF inc.raised THEN @ ELSE @ + 1, !.raised = inc.raised, !.due = ~inc.raised /\ inc.count > 0 /\ inc.count % 10 = 0]

(***************************************************************************)
(* message_handler, one action per stretch of code between two awaits.     *)
(***************************************************************************)
\* lines 428-441: resolve the user and the mode, count the interaction
MsgReceive(p, u, text, now) ==
    /\ CanStart(p)
    /\ clock' = IF get_user(users, u) = None THEN now ELSE clock
    /\ LET U1 == IF get_user(users, u) = None THEN create_user(users, u, Username(u), now) ELSE users
           user == get_user(U1, u)
           mode == IF user # None THEN user.mode ELSE "basic"
           inc == increment_interaction(U1, u)
       IN /\ users' = inc.users
          /\ hist' = [hist EXCEPT ![p] = Counted(Began("message", u), inc)]
          /\ IF inc.raised
             THEN Raise(p)
             ELSE /\ loc' = [loc EXCEPT ![p] = [NoLocals EXCEPT !.user_id = u, !.query = text, !.mode = mode, !.count = inc.count]]
                  /\ Reply(p, "searching")
                  /\ Goto(p, "mh_mode")
    /\ UNCHANGED <<downloads, files, count0, call, ret>>

\* lines 443-445: advanced mode asks the metadata client
MsgSearch(p) ==
    /\ At(p, "mh_mode")
    /\ loc[p].mode = "advanced"
    /\ loc' = [loc EXCEPT ![p] = Keep(@, {"user_id", "count", "query"})]
    /\ hist' = [hist EXCEPT ![p].searches = @ + 1]
    /\ Goto(p, "mh_search")
    /\ UNCHANGED <<users, downloads, files, clock, out, count0, call, ret>>

\* lines 447-454 and 461-467: the client's answer
MsgSearched(p, resp) ==
    /\ At(p, "mh_search")
    /\ LET tracks == search_track(resp)
       IN IF tracks # <<>>
          THEN /\ loc' = [loc EXCEPT ![p] = Keep([loc[p] EXCEPT !.tracks = tracks], {"user_id", "count", "tracks"})]
               /\ Reply(p, "results")
               /\ Goto(p, "mh_report")
          ELSE /\ loc' = [loc EXCEPT ![p] = Keep([loc[p] EXCEPT !.download_query = loc[p].query], {"user_id", "count", "download_query"})]
               /\ Reply(p, "downloading")
               /\ Goto(p, "mh_download")
    /\ hist' = [hist EXCEPT ![p].found = IF search_track(resp) # <<>> THEN "hits" ELSE "empty"]
    /\ UNCHANGED <<users, downloads, files, clock, count0, call, ret>>

TopQueryLast(tracks) == Get(tracks[Len(tracks)], "artist", Unknown) \o <<" ">> \o Get(tracks[Len(tracks)], "name", Unknown)

\* lines 457-460: f"{artist} {name}" of tracks[0]
TopQuery(tracks) == Get(tracks[1], "artist", Unknown) \o <<" ">> \o Get(tracks[1], "name", Unknown)

\* lines 456-467: the first result becomes the download query
MsgTop(p) ==
    /\ At(p, "mh_report")
    /\ loc' = [loc EXCEPT ![p] = Keep([loc[p] EXCEPT !.download_query = TopQuery(loc[p].tracks)], {"user_id", "count", "download_query"})]
    /\ Reply(p, "downloading")
    /\ Goto(p, "mh_download")
    /\ UNCHANGED <<users, downloads, files, clock, hist, count0, call, ret>>

\* lines 463-467: any other mode downloads the text as sent
MsgBasic(p) ==
    /\ At(p, "mh_mode")
    /\ loc[p].mode # "advanced"
    /\ loc' = [loc EXCEPT ![p] = Keep([loc[p] EXCEPT !.download_query = loc[p].query], {"user_id", "count", "download_query"})]
    /\ Reply(p, "downloading")
    /\ Goto(p, "mh_download")
    /\ UNCHANGED <<users, downloads, files, clock, hist, count0, call, ret>>

\* a failed acquisition is tried again
MsgAcquireRetry(p, got) ==
    /\ At(p, "mh_download")
    /\ files' = IF got.made THEN files \cup {got.path} ELSE files
    /\ IF got.path # "" /\ got.path \in files'
       THEN /\ loc' = [loc EXCEPT ![p].file_path = got.path]
            /\ hist' = [hist EXCEPT ![p].acquires = @ + 1, ![p].acquired = "file", ![p].sends = @ + 1]
            /\ Goto(p, "mh_send")
            /\ UNCHANGED out
       ELSE /\ hist' = [hist EXCEPT ![p].acquires = @ + 1, ![p].acquired = IF got.path = "" THEN "absent" ELSE "missing"]
            /\ IF hist[p].acquires = 0
               THEN UNCHANGED <<loc, out, pc>>
               ELSE /\ loc' = [loc EXCEPT ![p] = Keep(@, {"count"})]
                    /\ Reply(p, "not_found")
                    /\ Goto(p, "mh_failed")
    /\ UNCHANGED <<users, downloads, clock, count0, call, ret>>

\* lines 469-478 and 493-496: download_audio has no await in it and runs to
\* its end in this step; then the audio send starts, or the not-found reply
MsgAcquire(p, got) ==
    /\ At(p, "mh_download")
    /\ files' = IF got.made THEN files \cup {got.path} ELSE files
    /\ IF got.path # "" /\ got.path \in files'
       THEN /\ loc' = [loc EXCEPT ![p].file_path = got.path]
            /\ hist' = [hist EXCEPT ![p].acquires = @ + 1, ![p].acquired = "file", ![p].sends = @ + 1]
            /\ Goto(p, "mh_send")
            /\ UNCHANGED out
       ELSE /\ loc' = [loc EXCEPT ![p] = Keep(@, {"count"})]
            /\ hist' = [hist EXCEPT ![p].acquires = @ + 1, ![p].acquired = IF got.path = "" THEN "absent" ELSE "missing"]
            /\ Reply(p, "not_found")
            /\ Goto(p, "mh_failed")
    /\ UNCHANGED <<users, downloads, clock, count0, call, ret>>

HistoryEntryLast(download_query) ==
    LET n == CHOOSE i \in 0..Len(download_query) : (i = 0 \/ download_query[i] = " ") /\ \A j \in (i + 1)..Len(download_query) : download_query[j] # " "
    IN [artist |-> IF n = 0 THEN download_query ELSE SubSeq(download_query, 1, n - 1),
        track |-> IF n = 0 THEN download_query ELSE SubSeq(download_query, n + 1, Len(download_query))]

\* lines 481-483
HistoryEntry(download_query) ==
    LET parts == Split1(download_query, " ")
    IN [artist |-> IF Len(parts) > 0 THEN parts[1] ELSE Unknown,
        track |-> IF Len(parts) > 1 THEN parts[2] ELSE download_query]

\* lines 474-501: the send returned; history, clean-up, advertisement
MsgSent(p, now) ==
    /\ At(p, "mh_send")
    /\ LET e == HistoryEntry(loc[p].download_query)
       IN downloads' = add_download(downloads, loc[p].user_id, e.track, e.artist, now)
    /\ clock' = now
    /\ hist' = [hist EXCEPT ![p].sent = TRUE, ![p].adds = @ + 1]
    /\ IF loc[p].file_path \in files
       THEN /\ files' = files \ {loc[p].file_path}
            /\ ShowAd(p, loc[p].count, Append(out[p], "audio"))
       ELSE /\ files' = files
            /\ loc' = [loc EXCEPT ![p] = Keep(@, {"count"})]
            /\ out' = [out EXCEPT ![p] = @ \o <<"audio", "send_error">>]
            /\ Goto(p, "mh_failed")
    /\ UNCHANGED <<users, count0, call, ret>>

\* the history row written before the send is known to have worked
MsgSendFailedSaved(p) ==
    /\ At(p, "mh_send")
    /\ LET e == HistoryEntry(loc[p].download_query)
       IN downloads' = add_download(downloads, loc[p].user_id, e.track, e.artist, clock)
    /\ loc' = [loc EXCEPT ![p] = Keep(@, {"count"})]
    /\ Reply(p, "send_error")
    /\ Goto(p, "mh_failed")
    /\ UNCHANGED <<users, files, clock, hist, count0, call, ret>>

\* lines 488-492: the send raised
MsgSendFailed(p) ==
    /\ At(p, "mh_send")
    /\ loc' = [loc EXCEPT ![p] = Keep(@, {"count"})]
    /\ Reply(p, "send_error")
    /\ Goto(p, "mh_failed")
    /\ UNCHANGED <<users, downloads, files, clock, hist, count0, call, ret>>

\* lines 498-501 after an error reply
MsgAd(p) ==
    /\ At(p, "mh_failed")
    /\ ShowAd(p, loc[p].count, out[p])
    /\ UNCHANGED <<users, downloads, files, clock, hist, count0, call, ret>>

\* the last reply of a handler was sent
Return(p) ==
    /\ At(p, "last_reply")
    /\ Goto(p, "done")
    /\ UNCHANGED <<users, downloads, files, clock, loc, out, hist, count0, call, ret>>

(***************************************************************************)
(* similar_command                                                         *)
(***************************************************************************)
\* the interaction counted on entry, before the arguments are looked at
SimilarRejectCounted(p, u, args) ==
    /\ CanStart(p)
    /\ args = <<>> \/ ~InStr("-", Join(args))
    /\ u \in DOMAIN users
    /\ users' = increment_interaction(users, u).users
    /\ hist' = [hist EXCEPT ![p] = [Began("similar", u) EXCEPT !.dashed = Dashed(args)]]
    /\ Reply(p, IF args = <<>> THEN "usage" ELSE "bad_format")
    /\ Goto(p, "last_reply")
    /\ UNCHANGED <<downloads, files, clock, loc, count0, call, ret>>

\* lines 381-400: no arguments, or no '-' in them
SimilarReject(p, u, args) ==
    /\ CanStart(p)
    /\ args = <<>> \/ ~InStr("-", Join(args))
    /\ hist' = [hist EXCEPT ![p] = [Began("similar", u) EXCEPT !.dashed = Dashed(args)]]
    /\ Reply(p, IF args = <<>> THEN "usage" ELSE "bad_format")
    /\ Goto(p, "last_reply")
    /\ UNCHANGED <<users, downloads, files, clock, loc, count0, call, ret>>

\* lines 389-402
SimilarReceive(p, u, args) ==
    /\ CanStart(p)
    /\ args # <<>>
    /\ InStr("-", Join(args))
    /\ LET parts == Split1(Join(args), "-")
       IN loc' = [loc EXCEPT ![p] = [NoLocals EXCEPT !.user_id = u, !.artist = Strip(parts[1]), !.track = Strip(parts[2])]]
    /\ hist' = [hist EXCEPT ![p] = [Began("similar", u) EXCEPT !.dashed = Dashed(args)]]
    /\ Reply(p, "looking")
    /\ Goto(p, "sc_wait")
    /\ UNCHANGED <<users, downloads, files, clock, count0, call, ret>>

\* line 404
SimilarAsk(p) ==
    /\ At(p, "sc_wait")
    /\ hist' = [hist EXCEPT ![p].similars = @ + 1]
    /\ Goto(p, "sc_similar")
    /\ UNCHANGED <<users, downloads, files, clock, loc, out, count0, call, ret>>

\* lines 406-417
SimilarAnswered(p, resp) ==
    /\ At(p, "sc_similar")
    /\ loc' = [loc EXCEPT ![p] = Keep(@, {"user_id"})]
    /\ Reply(p, IF get_similar_tracks(resp) # <<>> THEN "similar" ELSE "no_similar")
    /\ Goto(p, "sc_count")
    /\ UNCHANGED <<users, downloads, files, clock, hist, count0, call, ret>>

\* lines 419-423
SimilarCount(p) ==
    /\ At(p, "sc_count")
    /\ LET inc == increment_interaction(users, loc[p].user_id)
       IN /\ users' = inc.users
          /\ hist' = [hist EXCEPT ![p] = Counted(@, inc)]
          /\ IF inc.raised THEN Raise(p) ELSE ShowAd(p, inc.count, out[p])
    /\ UNCHANGED <<downloads, files, clock, count0, call, ret>>

(***************************************************************************)
(* start                                                                   *)
(***************************************************************************)
\* lines 260-277
Start(p, u, now) ==
    /\ CanStart(p)
    /\ users' = create_user(users, u, Username(u), now)
    /\ clock' = IF u \in DOMAIN users THEN clock ELSE now
    /\ hist' = [hist EXCEPT ![p] = Began("start", u)]
    /\ Reply(p, "welcome")
    /\ Goto(p, "last_reply")
    /\ UNCHANGED <<downloads, files, loc, count0, call, ret>>

(***************************************************************************)
(* button_handler                                                          *)
(***************************************************************************)
\* lines 282-286
ButtonReceive(p, u, data) ==
    /\ CanStart(p)
    /\ loc' = [loc EXCEPT ![p] = [NoLocals EXCEPT !.user_id = u, !.data = data]]
    /\ hist' = [hist EXCEPT ![p] = Began("button", u)]
    /\ Goto(p, "bh_answer")
    /\ UNCHANGED <<users, downloads, files, clock, out, count0, call, ret>>

\* lines 288-312
ButtonMode(p) ==
    /\ At(p, "bh_answer")
    /\ loc[p].data \in {"mode_basic", "mode_advanced"}
    /\ users' = update_mode(users, loc[p].user_id, IF loc[p].data = "mode_basic" THEN "basic" ELSE "advanced")
    /\ loc' = [loc EXCEPT ![p] = NoLocals]
    /\ Reply(p, IF loc[p].data = "mode_basic" THEN "basic_on" ELSE "advanced_menu")
    /\ Goto(p, "last_reply")
    /\ UNCHANGED <<downloads, files, clock, hist, count0, call, ret>>

\* lines 314-329 and 363-374
ButtonInfo(p) ==
    /\ At(p, "bh_answer")
    /\ loc[p].data \in {"adv_search", "adv_recommendations", "back_to_start"}
    /\ loc' = [loc EXCEPT ![p] = NoLocals]
    /\ Reply(p, loc[p].data)
    /\ Goto(p, "last_reply")
    /\ UNCHANGED <<users, downloads, files, clock, hist, count0, call, ret>>

\* lines 331-332
ButtonTop(p) ==
    /\ At(p, "bh_answer")
    /\ loc[p].data = "adv_top_tracks"
    /\ loc' = [loc EXCEPT ![p] = NoLocals]
    /\ Reply(p, "loading")
    /\ Goto(p, "bh_loading")
    /\ UNCHANGED <<users, downloads, files, clock, hist, count0, call, ret>>

\* line 333
ButtonTopAsk(p) ==
    /\ At(p, "bh_loading")
    /\ Goto(p, "bh_top")
    /\ UNCHANGED <<users, downloads, files, clock, loc, out, hist, count0, call, ret>>

\* lines 335-347: a single object instead of a list is a dict, and
\* enumerate() of a dict gives its keys, which have no get()
ButtonTopAnswered(p, resp) ==
    /\ At(p, "bh_top")
    /\ LET tracks == get_top_tracks(resp)
       IN IF tracks.tag = "dict"
          THEN /\ Raise(p)
               /\ hist' = [hist EXCEPT ![p].raised = TRUE]
          ELSE /\ Reply(p, IF tracks.list # <<>> THEN "top_tracks" ELSE "top_failed")
               /\ Goto(p, "last_reply")
               /\ UNCHANGED <<loc, hist>>
    /\ UNCHANGED <<users, downloads, files, clock, count0, call, ret>>

\* lines 349-361
ButtonHistory(p, history) ==
    /\ At(p, "bh_answer")
    /\ loc[p].data = "adv_history"
    /\ loc' = [loc EXCEPT ![p] = NoLocals]
    /\ Reply(p, IF history # <<>> THEN "history" ELSE "no_history")
    /\ Goto(p, "last_reply")
    /\ UNCHANGED <<users, downloads, files, clock, hist, count0, call, ret>>

\* no branch of lines 288-374 takes the token
ButtonOther(p) ==
    /\ At(p, "bh_answer")
    /\ loc[p].data \notin Tokens \ {"other"}
    /\ loc' = [loc EXCEPT ![p] = NoLocals]
    /\ Goto(p, "done")
    /\ UNCHANGED <<users, downloads, files, clock, out, hist, count0, call, ret>>

Next ==
    \/ \E p \in Procs, u \in UserIds, text \in Texts, now \in Now : MsgReceive(p, u, text, now)
    \/ \E p \in Procs : MsgSearch(p)
    \/ \E p \in Procs, resp \in SearchResponses : MsgSearched(p, resp)
    \/ \E p \in Procs : MsgTop(p)
    \/ \E p \in Procs : MsgBasic(p)
    \/ \E p \in Procs : \E got \in download_audio(loc[p].download_query) : MsgAcquire(p, got)
    \/ \E p \in Procs, now \in Now : MsgSent(p, now)
    \/ \E p \in Procs : MsgSendFailed(p)
    \/ \E p \in Procs : MsgAd(p)
    \/ \E p \in Procs, u \in UserIds, args \in ArgLists : SimilarReject(p, u, args)
    \/ \E p \in Procs, u \in UserIds, args \in ArgLists : SimilarReceive(p, u, args)
    \/ \E p \in Procs : SimilarAsk(p)
    \/ \E p \in Procs, resp \in SimilarResponses : SimilarAnswered(p, resp)
    \/ \E p \in Procs : SimilarCount(p)
    \/ \E p \in Procs, u \in UserIds, now \in Now : Start(p, u, now)
    \/ \E p \in Procs, u \in UserIds, data \in Tokens : ButtonReceive(p, u, data)
    \/ \E p \in Procs : ButtonMode(p)
    \/ \E p \in Procs : ButtonInfo(p)
    \/ \E p \in Procs : ButtonTop(p)
    \/ \E p \in Procs : ButtonTopAsk(p)
    \/ \E p \in Procs, resp \in TopResponses : ButtonTopAnswered(p, resp)
    \/ \E p \in Procs : \E history \in get_user_history(downloads, loc[p].user_id, HistoryLimit) : ButtonHistory(p, history)
    \/ \E p \in Procs : ButtonOther(p)
    \/ \E p \in Procs : Return(p)

Spec == Init /\ [][Next]_vars

(***************************************************************************)
(* users.db unavailable: a call of a Database method in one of the two     *)
(* pipelines raises sqlite3.OperationalError from connect() or execute().  *)
(***************************************************************************)
\* lines 431-439: get_user or increment_interaction raises; no try encloses
\* them, and a create_user before the failing call has been committed
MsgReceiveStorageDown(p, u, at, now) ==
    /\ CanStart(p)
    /\ at = "increment_interaction" \/ now = clock
    /\ users' = IF at = "increment_interaction" THEN create_user(users, u, Username(u), now) ELSE users
    /\ clock' = IF at = "increment_interaction" /\ u \notin DOMAIN users THEN now ELSE clock
    /\ hist' = [hist EXCEPT ![p] = [Began("message", u) EXCEPT !.raised = TRUE, !.fault = "storage"]]
    /\ Raise(p)
    /\ UNCHANGED <<downloads, files, count0, call, ret>>

\* lines 474-492: the send returned and add_download raises inside the try:
\* os.remove is skipped and the except clause replies
MsgSentStorageDown(p) ==
    /\ At(p, "mh_send")
    /\ hist' = [hist EXCEPT ![p].sent = TRUE, ![p].fault = "storage"]
    /\ loc' = [loc EXCEPT ![p] = Keep(@, {"count"})]
    /\ out' = [out EXCEPT ![p] = @ \o <<"audio", "send_error">>]
    /\ Goto(p, "mh_failed")
    /\ UNCHANGED <<users, downloads, files, clock, count0, call, ret>>

\* line 420: increment_interaction raises after the report; no try encloses it
SimilarCountStorageDown(p) ==
    /\ At(p, "sc_count")
    /\ hist' = [hist EXCEPT ![p].raised = TRUE, ![p].fault = "storage"]
    /\ Raise(p)
    /\ UNCHANGED <<users, downloads, files, clock, count0, call, ret>>

NextStorageDown ==
    \/ Next
    \/ \E p \in Procs, u \in UserIds, at \in {"get_user", "increment_interaction"}, now \in Now : MsgReceiveStorageDown(p, u, at, now)
    \/ \E p \in Procs : MsgSentStorageDown(p)
    \/ \E p \in Procs : SimilarCountStorageDown(p)

SpecStorageDown == Init /\ [][NextStorageDown]_vars

(***************************************************************************)
(* The downloads table on its own: add_download and get_user_history       *)
(* called in any order.                                                    *)
(***************************************************************************)
MaxRows == 3

InitStore ==
    /\ users \in [{} -> Rows]
    /\ downloads = <<>>
    /\ files = {}
    /\ clock = 0
    /\ pc = [p \in Procs |-> "idle"]
    /\ loc = [p \in Procs |-> NoLocals]
    /\ out = [p \in Procs |-> <<>>]
    /\ hist = [p \in Procs |-> NoHistory]
    /\ count0 = [u \in UserIds |-> 0]
    /\ call = NoCall
    /\ ret = Pending

CallAddDownload(u, track_name, now) ==
    /\ Len(downloads) < MaxRows
    /\ downloads' = add_download(downloads, u, track_name, <<"a">>, now)
    /\ clock' = now
    /\ call' = NoCall
    /\ ret' = Pending
    /\ UNCHANGED <<users, files, pc, loc, out, hist, count0>>

CallGetUserHistory(u, limit, history) ==
    /\ call' = [op |-> "get_user_history", user_id |-> u, limit |-> limit]
    /\ ret' = [value |-> history]
    /\ UNCHANGED <<users, downloads, files, clock, pc, loc, out, hist, count0>>

NextStore ==
    \/ \E u \in UserIds, track_name \in Texts, now \in Now : CallAddDownload(u, track_name, now)
    \/ \E u \in UserIds, limit \in 1..MaxRows : \E history \in get_user_history(downloads, u, limit) : CallGetUserHistory(u, limit, history)

SpecStore == InitStore /\ [][NextStore]_vars

(***************************************************************************)
(* The metadata client on its own: one call of one of its three methods    *)
(* and the provider's answer to it, then what the method returns.          *)
(***************************************************************************)
MaxTracks == 3

SeqsUpTo(S, n) == UNION {[1..k -> S] : k \in 0..n}

Hits == {SearchHit1, SearchHit2}

\* the answers of the provider: a failure, levels missing, a single object,
\* a list of up to MaxTracks objects
ClientResponses == Malformed \cup {[fail |-> FALSE, depth |-> 2, track |-> t] : t \in {OneTrack(h) : h \in Hits} \cup {TrackList(l) : l \in SeqsUpTo(Hits, MaxTracks)}}

ClientOps == {"search_track", "get_similar_tracks", "get_top_tracks"}

InitClient ==
    /\ users \in [{} -> Rows]
    /\ downloads = <<>>
    /\ files = {}
    /\ clock = 0
    /\ pc = [p \in Procs |-> "idle"]
    /\ loc = [p \in Procs |-> NoLocals]
    /\ out = [p \in Procs |-> <<>>]
    /\ hist = [p \in Procs |-> NoHistory]
    /\ count0 = [u \in UserIds |-> 0]
    /\ call \in [op : ClientOps, resp : ClientResponses]
    /\ ret = Pending

CallSearchTrack ==
    /\ call.op = "search_track" /\ ret = Pending
    /\ ret' = [value |-> search_track(call.resp)]
    /\ UNCHANGED <<users, downloads, files, clock, pc, loc, out, hist, count0, call>>

CallGetSimilarTracks ==
    /\ call.op = "get_similar_tracks" /\ ret = Pending
    /\ ret' = [value |-> get_similar_tracks(call.resp)]
    /\ UNCHANGED <<users, downloads, files, clock, pc, loc, out, hist, count0, call>>

CallGetTopTracks ==
    /\ call.op = "get_top_tracks" /\ ret = Pending
    /\ ret' = [value |-> get_top_tracks(call.resp)]
    /\ UNCHANGED <<users, downloads, files, clock, pc, loc, out, hist, count0, call>>

NextClient ==
    \/ CallSearchTrack
    \/ CallGetSimilarTracks
    \/ CallGetTopTracks

SpecClient == InitClient /\ [][NextClient]_vars

(***************************************************************************)
(* Properties                                                              *)
(***************************************************************************)
Occurrences(seq, m) == Cardinality({i \in DOMAIN seq : seq[i] = m})

Ads(p) == Occurrences(out[p], "ad")

RECURSIVE SumOver(_, _)
SumOver(f, S) == IF S = {} THEN 0 ELSE LET x == CHOOSE y \in S : TRUE IN f[x] + SumOver(f, S \ {x})

\* the increment_interaction calls made so far for user u while u had a row
IncrementsFor(u) == SumOver([p \in Procs |-> IF hist[p].user_id = u THEN hist[p].incs ELSE 0], Procs)

Running(p) == pc[p] \notin {"idle", "done", "raised"}

Ended(p) == pc[p] \in {"done", "raised"}

Pipeline(p) == hist[p].handler = "message" \/ (hist[p].handler = "similar" /\ hist[p].dashed)

\* C1: a stored interaction_count is the count the row started with plus the
\* number of increment_interaction calls made for that user, however the
\* handlers that made them interleave: no increment is lost
C1_NoLostIncrement == \A u \in DOMAIN users : users[u].interaction_count = count0[u] + IncrementsFor(u)

\* two handlers for the same stored user have both incremented and are both
\* still running
C1_Witness ==
    \E u \in DOMAIN users : \E p, q \in Procs :
        /\ p # q /\ Running(p) /\ Running(q)
        /\ hist[p].user_id = u /\ hist[q].user_id = u
        /\ hist[p].incs = 1 /\ hist[q].incs = 1
        /\ users[u].interaction_count = count0[u] + 2

\* C2: a free-text or valid /similar handler never sends more than one
\* advertisement, sends one only if its own increment returned a positive
\* multiple of ten, and has sent exactly one by its end if it did
C2_AdIffOwnCountDue ==
    \A p \in Procs : Pipeline(p) =>
        /\ Ads(p) <= 1
        /\ Ads(p) = 1 => hist[p].due
        /\ Ended(p) => (Ads(p) = 1 <=> hist[p].due)

\* a free-text handler whose acquisition failed ends with its advertisement
\* although another handler has counted the same user up meanwhile
C2_Witness ==
    \E p \in Procs :
        /\ pc[p] = "done" /\ hist[p].handler = "message" /\ hist[p].acquired = "absent"
        /\ hist[p].due /\ Ads(p) = 1
        /\ ~should_show_ad(users[hist[p].user_id].interaction_count)

Row(U, u) == IF u \in DOMAIN U THEN U[u] ELSE None

CountOf(U, u) == IF u \in DOMAIN U THEN U[u].interaction_count ELSE 0

Step(p) == pc'[p] # pc[p]

\* C3: the step that receives a free-text message raises the sender's count
\* by one and leaves every other row as it was; no later step of the handler
\* changes the users table, so each message counts exactly once
C3_MessageCountsOnce ==
    [][\A p \in Procs :
        /\ (Step(p) /\ pc[p] = "idle" /\ hist'[p].handler = "message") =>
              /\ hist'[p].user_id \in DOMAIN users'
              /\ CountOf(users', hist'[p].user_id) = CountOf(users, hist'[p].user_id) + 1
              /\ \A v \in UserIds \ {hist'[p].user_id} : Row(users', v) = Row(users, v)
        /\ (Step(p) /\ hist[p].handler = "message") => users' = users
        /\ hist'[p].handler = "message" => hist'[p].incs = 1]_vars

\* free-text handlers have ended after a failed acquisition, after a failed
\* send and after a successful send
C3_Witness ==
    \E p, q \in Procs :
        /\ pc[p] = "done" /\ hist[p].handler = "message" /\ hist[p].acquired = "absent"
        /\ pc[q] = "done" /\ hist[q].handler = "message" /\ hist[q].sends = 1 /\ ~hist[q].sent
        /\ hist[p].user_id = hist[q].user_id
        /\ users[hist[p].user_id].interaction_count = count0[hist[p].user_id] + 2

\* C4: a /similar command with no '-' in its arguments gets the usage or the
\* format reply and nothing else: its handler changes no table and no file,
\* never asks for similar tracks, never counts and never advertises
C4_MalformedSimilarHasNoEffect ==
    [][\A p \in Procs : (Step(p) /\ hist'[p].handler = "similar" /\ ~hist'[p].dashed) =>
        /\ users' = users /\ downloads' = downloads /\ files' = files
        /\ out'[p] \in {<<"usage">>, <<"bad_format">>}
        /\ pc'[p] \in {"last_reply", "done"}
        /\ hist'[p].similars = 0 /\ hist'[p].incs = 0 /\ ~hist'[p].raised]_vars

\* both rejections have happened, one of them for a user with a row
C4_Witness ==
    \E p, q \in Procs :
        /\ pc[p] = "done" /\ hist[p].handler = "similar" /\ out[p] = <<"usage">>
        /\ pc[q] = "done" /\ hist[q].handler = "similar" /\ out[q] = <<"bad_format">>
        /\ hist[q].user_id \in DOMAIN users

\* C5: a /similar command with a '-' in its arguments asks for similar
\* tracks, reports, then counts the interaction once, and its handler ends
\* without an exception leaving it, whether or not the sender has a row
C5_ValidSimilarCompletes ==
    \A p \in Procs : (hist[p].handler = "similar" /\ hist[p].dashed) =>
        /\ pc[p] # "raised"
        /\ hist[p].incs = 1 => (hist[p].similars = 1 /\ Len(out[p]) >= 2 /\ out[p][2] \in {"similar", "no_similar"})
        /\ pc[p] \in {"last_reply", "done"} => hist[p].incs = 1

\* C6: once download_audio has returned None the handler has called it once
\* and never calls it again, attempts no send, replies not-found once, adds
\* no download row, has counted the interaction once and still ends with the
\* advertisement if one is due
C6_AbsentIsTerminal ==
    [][\A p \in Procs : (hist'[p].handler = "message" /\ hist'[p].acquired = "absent") =>
        /\ hist'[p].acquires = 1 /\ hist'[p].sends = 0 /\ hist'[p].incs = 1
        /\ pc'[p] \in {"mh_failed", "last_reply", "done"}
        /\ Occurrences(out'[p], "not_found") = 1
        /\ Occurrences(out'[p], "audio") = 0 /\ Occurrences(out'[p], "send_error") = 0
        /\ Step(p) => downloads' = downloads
        /\ pc'[p] = "done" => (Occurrences(out'[p], "ad") = 1 <=> hist'[p].due)]_vars

\* the handler has ended after an absent acquisition, once with and once
\* without an advertisement
C6_Witness ==
    \E p, q \in Procs :
        /\ pc[p] = "done" /\ hist[p].acquired = "absent" /\ Ads(p) = 1
        /\ pc[q] = "done" /\ hist[q].acquired = "absent" /\ Ads(q) = 0
        /\ downloads = <<>>

RecordsOf(D, u) == Cardinality({i \in DOMAIN D : D[i].user_id = u})

\* the audio attachments delivered to user u, given the replies O
DeliveredTo(O, H, u) == SumOver([p \in Procs |-> IF H[p].user_id = u THEN Occurrences(O[p], "audio") ELSE 0], Procs)

\* C7: the downloads table only grows, by one row at a time and only in the
\* step of a free-text handler in which the audio send has succeeded; a
\* failed send and a failed acquisition add nothing, so every user has as
\* many rows as audio attachments received
C7_OneRecordPerDelivery ==
    [][/\ \/ downloads' = downloads
          \/ /\ Len(downloads') = Len(downloads) + 1
             /\ SubSeq(downloads', 1, Len(downloads)) = downloads
             /\ \E p \in Procs :
                   /\ Step(p) /\ pc[p] = "mh_send" /\ hist'[p].handler = "message"
                   /\ Occurrences(out'[p], "audio") = Occurrences(out[p], "audio") + 1
                   /\ downloads'[Len(downloads')].user_id = hist[p].user_id
       /\ \A p \in Procs : (Step(p) /\ Occurrences(out'[p], "audio") > Occurrences(out[p], "audio")) => Len(downloads') = Len(downloads) + 1
       /\ \A p \in Procs : Occurrences(out'[p], "audio") <= 1
       /\ \A u \in UserIds : RecordsOf(downloads', u) = DeliveredTo(out', hist', u)]_vars

\* one user has a row from a delivery and has also seen a send fail and an
\* acquisition fail
C7_Witness ==
    \E p, q \in Procs :
        /\ pc[p] = "done" /\ Occurrences(out[p], "audio") = 1
        /\ pc[q] = "done" /\ hist[q].sends = 1 /\ Occurrences(out[q], "audio") = 0
        /\ hist[p].user_id = hist[q].user_id
        /\ RecordsOf(downloads, hist[p].user_id) = 1

\* C8: when the audio send ends, with or without an error, the artifact is
\* no longer in transient storage
C8_ArtifactRemovedAfterSend ==
    [][\A p \in Procs : (Step(p) /\ pc[p] = "mh_send") => loc[p].file_path \notin files']_vars

\* C9: the download query that message_handler passes to download_audio is
\* the text as sent in basic mode, the first search result's artist, a space
\* and its title in advanced mode when the search returned results, and the
\* text as sent in advanced mode when it returned none; only advanced mode
\* searches
C9_DownloadQuery ==
    [][\A p \in Procs : (Step(p) /\ hist'[p].handler = "message") =>
        /\ hist'[p].searches > hist[p].searches => (pc[p] = "mh_mode" /\ loc[p].mode = "advanced")
        /\ pc'[p] = "mh_download" =>
              \/ /\ pc[p] = "mh_mode" /\ loc[p].mode = "basic" /\ hist[p].searches = 0
                 /\ loc'[p].download_query = loc[p].query
              \/ /\ pc[p] = "mh_search" /\ hist[p].searches = 1 /\ hist'[p].found = "empty"
                 /\ loc'[p].download_query = loc[p].query
              \/ /\ pc[p] = "mh_report" /\ hist[p].searches = 1 /\ hist[p].found = "hits"
                 /\ LET top == loc[p].tracks[1]
                    IN DOMAIN top = {"artist", "name"} => loc'[p].download_query = top.artist \o <<" ">> \o top.name
        /\ (pc[p] = "mh_search" /\ hist'[p].found = "hits") => pc'[p] = "mh_report"
        /\ (pc[p] = "mh_mode" /\ loc[p].mode = "basic") => pc'[p] = "mh_download"
        /\ pc[p] = "mh_download" => hist'[p].acquires = 1]_vars

\* one handler is about to download the first of two search results, the
\* other the text it was sent after an empty search
C9_Witness ==
    \E p, q \in Procs :
        /\ pc[p] = "mh_download" /\ hist[p].found = "hits"
        /\ loc[p].download_query = SearchHit1.artist \o <<" ">> \o SearchHit1.name
        /\ pc[q] = "mh_download" /\ hist[q].found = "empty"
        /\ loc[q].download_query \in Texts

\* the text before the first space of s, all of s if it has none
FirstToken(s) == IF \E i \in DOMAIN s : s[i] = " " THEN SubSeq(s, 1, (CHOOSE i \in DOMAIN s : s[i] = " " /\ \A j \in 1..(i - 1) : s[j] # " ") - 1) ELSE s

\* the text after the first space of s, all of s if it has none
Remainder(s) == IF \E i \in DOMAIN s : s[i] = " " THEN SubSeq(s, (CHOOSE i \in DOMAIN s : s[i] = " " /\ \A j \in 1..(i - 1) : s[j] # " ") + 1, Len(s)) ELSE s

\* C10: the row added after a successful send has the sender as user, the
\* download query's first space-delimited token as artist and what follows
\* the first space as title, the whole download query when nothing follows
C10_FirstTokenSplit ==
    [][\A p \in Procs : (Step(p) /\ pc[p] = "mh_send" /\ Occurrences(out'[p], "audio") = 1) =>
        /\ loc[p].download_query # <<>>
        /\ Len(downloads') = Len(downloads) + 1
        /\ downloads'[Len(downloads')].user_id = hist[p].user_id
        /\ downloads'[Len(downloads')].artist = FirstToken(loc[p].download_query)
        /\ downloads'[Len(downloads')].track_name = Remainder(loc[p].download_query)]_vars

\* rows from a query of three words and from a query of one word
C10_Witness ==
    /\ \E i \in DOMAIN downloads : downloads[i].artist = <<"b">> /\ downloads[i].track_name = <<"a", " ", "b">>
    /\ \E i \in DOMAIN downloads : downloads[i].artist = <<"a">> /\ downloads[i].track_name = <<"a">>

\* the replies that report the outcome of a pipeline invocation
Reports == {"audio", "send_error", "not_found", "similar", "no_similar"}

\* C11: an advertisement of a free-text or /similar handler is the last reply
\* of its invocation, and the reply before it is the audio attachment or the
\* error, not-found or recommendation report of the same invocation; a
\* search report, if there is one, comes earlier still
C11_AdIsLast ==
    \A p \in Procs : Pipeline(p) =>
        \A i \in DOMAIN out[p] : out[p][i] = "ad" =>
            /\ i = Len(out[p])
            /\ i > 1 /\ out[p][i - 1] \in Reports
            /\ \A j \in DOMAIN out[p] : out[p][j] \in {"results", "searching", "downloading", "looking"} => j < i - 1

\* a free-text handler has ended with search report, audio and advertisement,
\* a /similar handler with its report and advertisement
C11_Witness ==
    \E p, q \in Procs :
        /\ pc[p] = "done" /\ out[p] = <<"searching", "results", "downloading", "audio", "ad">>
        /\ pc[q] = "done" /\ out[q] = <<"looking", "similar", "ad">>

\* C12: a metadata call that failed or whose answer lacks the track list in
\* the expected shape gives its handler nothing to show and no exception: a
\* free-text handler goes on to download the text as sent, a button handler
\* that asked for the top tracks ends with a reply
C12_ProviderFailureFallsBack ==
    \A p \in Procs :
        /\ (hist[p].handler = "message" /\ hist[p].found = "empty") =>
              /\ pc[p] \notin {"raised", "mh_report"}
              /\ Occurrences(out[p], "results") = 0
        /\ hist[p].handler = "button" => pc[p] # "raised"

\* C13: search_track and get_similar_tracks return a track field that is a
\* single object as the one-element sequence of that object, and a track
\* field that is a sequence as that sequence
C13_SingleObjectNormalized ==
    (call.op \in {"search_track", "get_similar_tracks"} /\ ret # Pending /\ ~call.resp.fail /\ call.resp.depth = 2) =>
        /\ call.resp.track.tag = "dict" => (Len(ret.value) = 1 /\ ret.value[1] = call.resp.track.obj)
        /\ call.resp.track.tag = "list" => ret.value = call.resp.track.list

\* get_similar_tracks has returned for an answer with a single object
C13_Witness ==
    /\ call.op = "get_similar_tracks" /\ call.resp.track = OneTrack(SearchHit1)
    /\ ret = [value |-> <<SearchHit1>>]

\* C14: create_user for an identifier that has a row changes no row, whatever
\* the table has come to hold, and the step of a /start handler leaves every
\* existing row, the sender's mode and interaction_count among them, as it was
C14_CreateUserIdempotent ==
    [][/\ \A u \in DOMAIN users : \A now \in Now : create_user(users, u, Username(u), now) = users
       /\ \A p \in Procs : (Step(p) /\ hist'[p].handler = "start") =>
              /\ DOMAIN users' = DOMAIN users \cup {hist'[p].user_id}
              /\ \A v \in DOMAIN users : users'[v] = users[v]]_vars

\* /start has been handled for a user whose row was written by an earlier
\* run, is in advanced mode and has been counted up since
C14_Witness ==
    \E p \in Procs :
        /\ pc[p] = "done" /\ hist[p].handler = "start"
        /\ users[hist[p].user_id].username = "old" /\ users[hist[p].user_id].mode = "advanced"
        /\ users[hist[p].user_id].interaction_count = count0[hist[p].user_id] + 1

\* C15: the step that receives /start or a free-text message from a user
\* with no row leaves that user with a row in basic mode, counted 0 after
\* /start and 1, the message's own increment, after a message, and changes
\* no other row; the message is handled in basic mode, without a search
C15_NewUserStartsBasic ==
    [][\A p \in Procs :
        /\ (Step(p) /\ pc[p] = "idle" /\ hist'[p].handler \in {"start", "message"} /\ hist'[p].user_id \notin DOMAIN users) =>
              /\ DOMAIN users' = DOMAIN users \cup {hist'[p].user_id}
              /\ users'[hist'[p].user_id].mode = "basic"
              /\ users'[hist'[p].user_id].interaction_count = (IF hist'[p].handler = "message" THEN 1 ELSE 0)
              /\ \A v \in DOMAIN users : users'[v] = users[v]
              /\ hist'[p].handler = "message" => (pc'[p] = "mh_mode" /\ loc'[p].mode = "basic")
        /\ (Step(p) /\ pc[p] = "mh_mode" /\ loc[p].mode = "basic") =>
              (pc'[p] = "mh_download" /\ hist'[p].searches = 0 /\ loc'[p].download_query = loc[p].query)]_vars

\* a user who had no row is being served in basic mode by one handler while
\* another handler has greeted a second user who had no row either
C15_Witness ==
    \E p, q \in Procs :
        /\ hist[p].handler = "message" /\ pc[p] = "mh_download" /\ hist[p].searches = 0
        /\ count0[hist[p].user_id] = 0 /\ users[hist[p].user_id].username = "new"
        /\ users[hist[p].user_id].interaction_count = 1
        /\ hist[q].handler = "start" /\ hist[q].user_id # hist[p].user_id
        /\ users[hist[q].user_id].username = "new" /\ users[hist[q].user_id].interaction_count = 0
        /\ users[hist[q].user_id].mode = "basic"

\* C16: no step of a button handler changes an interaction_count, the
\* downloads table or the transient files, calls download_audio, sends audio
\* or counts; the only thing it may change in the users table is the mode of
\* the row of the user who pressed, and only for mode_basic and mode_advanced
C16_ButtonsOnlySetMode ==
    [][\A p \in Procs : (Step(p) /\ hist'[p].handler = "button") =>
        /\ downloads' = downloads /\ files' = files
        /\ DOMAIN users' = DOMAIN users
        /\ \A v \in DOMAIN users :
              \/ users'[v] = users[v]
              \/ /\ v = hist'[p].user_id
                 /\ pc[p] = "bh_answer" /\ loc[p].data \in {"mode_basic", "mode_advanced"}
                 /\ users'[v] = [users[v] EXCEPT !.mode = IF loc[p].data = "mode_basic" THEN "basic" ELSE "advanced"]
        /\ hist'[p].incs = 0 /\ hist'[p].acquires = 0 /\ hist'[p].sends = 0 /\ hist'[p].adds = 0
        /\ Occurrences(out'[p], "audio") = 0 /\ Occurrences(out'[p], "ad") = 0]_vars

\* one user has switched to advanced mode by a button and another user's
\* button handler has ended, with the counts as they were at the start
C16_Witness ==
    \E p, q \in Procs :
        /\ pc[p] = "done" /\ hist[p].handler = "button" /\ out[p] = <<"advanced_menu">>
        /\ pc[q] = "done" /\ hist[q].handler = "button" /\ out[q] = <<"no_history">>
        /\ hist[p].user_id # hist[q].user_id
        /\ hist[p].user_id \in DOMAIN users /\ hist[q].user_id \in DOMAIN users
        /\ users[hist[p].user_id].mode = "advanced" /\ users[hist[q].user_id].mode = "basic"
        /\ \A v \in DOMAIN users : users[v].interaction_count = count0[v]

\* C17: a Database call that fails inside a free-text or /similar handler
\* does not end the handler by an exception: the handler goes on to its end
\* and has told the user of a failure
C17_StorageFailureCaught ==
    \A p \in Procs : (Pipeline(p) /\ hist[p].fault = "storage") =>
        /\ pc[p] # "raised"
        /\ Occurrences(out[p], "send_error") + Occurrences(out[p], "not_found") >= 1

\* the rows of D, latest added first
RECURSIVE Reverse(_)
Reverse(D) == IF D = <<>> THEN <<>> ELSE Append(Reverse(Tail(D)), Head(D))

\* the first n elements of the sequence q, all of q if it has fewer
Prefix(q, n) == SubSeq(q, 1, IF Len(q) < n THEN Len(q) ELSE n)

\* the (title, artist) pairs of the rows of user u, latest added first
LatestFirst(D, u) ==
    LET mine == SelectSeq(Reverse(D), LAMBDA r : r.user_id = u)
    IN [k \in DOMAIN mine |-> <<mine[k].track_name, mine[k].artist>>]

\* C18: get_user_history(id, limit) returns the (title, artist) pairs of
\* that user's rows only, at most limit of them, the row added last first
\* and every other row after the rows added after it, also when rows have
\* the same downloaded_at
C18_HistoryLatestFirst ==
    call.op = "get_user_history" => ret.value = Prefix(LatestFirst(downloads, call.user_id), call.limit)

\* C19: while another user's pipeline is running, no step of a handler both
\* begins and completes a metadata lookup, a media acquisition or an audio
\* send: the handler is suspended between the two, so the other pipeline
\* can take steps during the call
C19_ExternalCallsSuspend ==
    [][\A p, q \in Procs : (Step(p) /\ Running(q) /\ Pipeline(q) /\ hist[q].user_id # hist'[p].user_id) =>
        /\ ~(hist'[p].searches > hist[p].searches /\ hist'[p].found # hist[p].found)
        /\ ~(hist'[p].similars > hist[p].similars /\ pc'[p] = "sc_count")
        /\ ~(hist'[p].sends > hist[p].sends /\ pc[p] = "mh_send")
        /\ ~(hist'[p].acquires > hist[p].acquires /\ hist'[p].acquired # hist[p].acquired)]_vars

\* the replies of handler p that tell the outcome of its acquisition and send
Outcomes(p) == Occurrences(out[p], "audio") + Occurrences(out[p], "send_error") + Occurrences(out[p], "not_found")

\* C20: a free-text handler that has called download_audio reports at most
\* one of audio, send error and not-found, exactly one once the send or the
\* acquisition is over, and no send error after its audio was delivered
C20_OneTerminalOutcome ==
    \A p \in Procs : (hist[p].handler = "message" /\ hist[p].acquires >= 1) =>
        /\ Outcomes(p) <= 1
        /\ pc[p] \in {"mh_failed", "last_reply", "done"} => Outcomes(p) = 1
        /\ hist[p].sent => Occurrences(out[p], "send_error") = 0

\* C21: the step of a button handler that takes mode_basic or mode_advanced
\* from a user with no row writes nothing: no row appears and every table is
\* as before; so the step that later receives a free-text message from a
\* user who still has no row creates the row in basic mode and handles the
\* message in basic mode, whatever was pressed
C21_ModeButtonWithoutRow ==
    [][\A p \in Procs :
        /\ (Step(p) /\ pc[p] = "bh_answer" /\ loc[p].data \in {"mode_basic", "mode_advanced"} /\ loc[p].user_id \notin DOMAIN users) =>
              /\ users' = users /\ downloads' = downloads /\ files' = files
              /\ out'[p] = <<IF loc[p].data = "mode_basic" THEN "basic_on" ELSE "advanced_menu">>
        /\ (Step(p) /\ pc[p] = "idle" /\ hist'[p].handler = "message" /\ hist'[p].user_id \notin DOMAIN users) =>
              /\ hist'[p].user_id \in DOMAIN users'
              /\ users'[hist'[p].user_id].mode = "basic"
              /\ loc'[p].mode = "basic"
        /\ (Step(p) /\ pc[p] = "mh_mode" /\ loc[p].mode = "basic") => (pc'[p] = "mh_download" /\ hist'[p].searches = 0)]_vars

\* a user with no row has pressed mode_advanced and been shown the advanced
\* menu, and the message the same user sent next is being downloaded as
\* sent, from a row that is in basic mode
C21_Witness ==
    \E p, q \in Procs :
        /\ p < q /\ hist[p].user_id = hist[q].user_id
        /\ hist[p].handler = "button" /\ pc[p] = "done" /\ out[p] = <<"advanced_menu">>
        /\ hist[q].handler = "message" /\ pc[q] = "mh_download" /\ hist[q].searches = 0
        /\ loc[q].download_query \in Texts
        /\ users[hist[q].user_id].username = "new" /\ users[hist[q].user_id].mode = "basic"
        /\ users[hist[q].user_id].interaction_count = 1

====
